---------------------------- MODULE Spec2Model ----------------------------
(***************************************************************************)
(* Model of portfolio-theory.py: one run of the dashboard script (the      *)
(* Objective, MVO and Black Litterman tabs, executed top to bottom), and   *)
(* the risk analytics it computes from a return series.                    *)
(*                                                                         *)
(* Units.  Slider values are integers in percent (0.08 is 8).  Annual      *)
(* return vectors (expected_returns, rets) are integers in half percents   *)
(* (9% is 18), so that the Black-Litterman posterior of the model's data   *)
(* stays integral.  A weight is a number of quarters (w = 2 is 0.5): the   *)
(* optimiser is evaluated on the grid of quarter weights.  Periodic        *)
(* returns and the analytics are exact rationals [n, d]; a non-negative    *)
(* quantity the code obtains with a square root (a standard deviation)     *)
(* is carried as its square.  Floating-point rounding is not modelled.     *)
(***************************************************************************)
EXTENDS Integers, Sequences, FiniteSets, TLC

VARIABLES
    pc,                   \* position of the script run
    optimization_method,  \* sidebar selectbox (line 107)
    lower_bound,          \* sidebar slider, percent (line 114)
    upper_bound,          \* sidebar slider, percent (line 115)
    rfr,                  \* sidebar slider, percent (line 118)
    target_return,        \* sidebar slider, percent (line 121)
    viewdict,             \* absolute views of the Black Litterman tab
    ns,                   \* the script's namespace: name -> <<>> or <<value>>
    out,                  \* what each tab has displayed, in order
    calls,                \* optimiser calls made by the script, in order
    fin,                  \* input of the analytics evaluated on their own
    fout                  \* result of the analytics evaluated on their own

vars == <<pc, optimization_method, lower_bound, upper_bound, rfr,
          target_return, viewdict, ns, out, calls, fin, fout>>

runvars == <<pc, optimization_method, lower_bound, upper_bound, rfr,
             target_return, viewdict, ns, out, calls>>

---------------------------------------------------------------------------
(* Bounds of the model *)

\* longest return series the analytics are evaluated on
MaxT == 3

\* most checkboxes of the Black Litterman tab checked in a run
MaxViews == 2

---------------------------------------------------------------------------
(* Python names: unbound or bound *)

Unset == <<>>
Some(v) == <<v>>
IsSet(x) == Len(x) = 1
Val(x) == x[1]

---------------------------------------------------------------------------
(* Exact rationals *)

Abs(x) == IF x < 0 THEN -x ELSE x

RECURSIVE Gcd(_, _)
Gcd(a, b) == IF b = 0 THEN a ELSE Gcd(b, a % b)

Frac(n, d) ==
    LET g == Gcd(Abs(n), Abs(d))
        s == IF d < 0 THEN -1 ELSE 1
    IN  [n |-> s * (n \div g), d |-> s * (d \div g)]

Lcm(a, b) == (a \div Gcd(a, b)) * b

FInt(k) == [n |-> k, d |-> 1]
FAdd(x, y) ==
    LET l == Lcm(x.d, y.d)
    IN  Frac(x.n * (l \div x.d) + y.n * (l \div y.d), l)
FNeg(x) == [n |-> -x.n, d |-> x.d]
FSub(x, y) == FAdd(x, FNeg(y))
FMul(x, y) ==
    LET a == Frac(x.n, y.d)
        b == Frac(y.n, x.d)
    IN  [n |-> a.n * b.n, d |-> a.d * b.d]
\* y # 0
FDiv(x, y) == FMul(x, Frac(y.d, y.n))
FLess(x, y) ==
    LET l == Lcm(x.d, y.d)
    IN  x.n * (l \div x.d) < y.n * (l \div y.d)
FLeq(x, y) == ~FLess(y, x)
FZero == FInt(0)
FOne == FInt(1)

RECURSIVE FSum(_)
FSum(s) == IF s = <<>> THEN FZero ELSE FAdd(s[1], FSum(Tail(s)))

\* numpy's nan, as a value of its own
NaN == [n |-> 0, d |-> 0]
IsNaN(x) == x.d = 0

---------------------------------------------------------------------------
(* The data: four factor indices, the estimates made from them (lines     *)
(* 83-84) and the benchmark.  The spreadsheets are not part of the         *)
(* repository; the model fixes one data set.                               *)

Tabs == {"Objective", "MVO", "BL"}

AssetSeq == <<"USA QUALITY", "USA LARGE VALUE", "USA LARGE GROWTH",
              "USA MINIMUM VOLATILITY">>
Assets == {AssetSeq[i] : i \in 1..Len(AssetSeq)}

\* periodic returns in tenths, per column, periods 1..3
Tenth(k) == Frac(k, 10)
ToSeries(s) == [t \in 1..Len(s) |-> Tenth(s[t])]

\* data.pct_change().dropna()
PctChange ==
    [a \in Assets |->
        CASE a = "USA QUALITY"            -> ToSeries(<<1, -1, 2>>)
          [] a = "USA LARGE VALUE"        -> ToSeries(<<0, -2, 1>>)
          [] a = "USA LARGE GROWTH"       -> ToSeries(<<3, -4, 2>>)
          [] a = "USA MINIMUM VOLATILITY" -> ToSeries(<<1, 0, 0>>)]

\* mean_historical_return(data, frequency=12, compounding=True), half percents
MeanHistoricalReturn ==
    [a \in Assets |->
        CASE a = "USA QUALITY"            -> 14
          [] a = "USA LARGE VALUE"        -> 10
          [] a = "USA LARGE GROWTH"       -> 18
          [] a = "USA MINIMUM VOLATILITY" -> 6]

\* CovarianceShrinkage(data, frequency=12).ledoit_wolf(): the data set's
\* shrunk covariance is diagonal; the matrix is given by its diagonal
LedoitWolf ==
    [a \in Assets |->
        CASE a = "USA QUALITY"            -> 4
          [] a = "USA LARGE VALUE"        -> 5
          [] a = "USA LARGE GROWTH"       -> 9
          [] a = "USA MINIMUM VOLATILITY" -> 2]

\* bmk_data['USA Standard (Large+Mid Cap)'].pct_change().dropna()
BenchmarkPctChange == ToSeries(<<2, -2, 1>>)

\* An estimate carries the estimator that made it.
HistoricalMean(v) == [kind |-> "mean_historical_return", v |-> v]
Shrinkage(v) == [kind |-> "ledoit_wolf", v |-> v]

---------------------------------------------------------------------------
(* The widgets' ranges and the values the model draws from them *)

Methods == {"Efficient Return", "Max Sharpe", "Minimum Volatility"}

LowerBoundMin == 0
LowerBoundMax == 25
UpperBoundMin == 0
UpperBoundMax == 100
RfrMin == 0
RfrMax == 6
TargetReturnMin == 5
TargetReturnMax == 15
ViewMin == 5
ViewMax == 25

LowerBoundValues == {LowerBoundMin, LowerBoundMax}
UpperBoundValues == {10, 25, UpperBoundMax}
RfrValues == {3, RfrMax}
TargetReturnValues == {8, TargetReturnMax}
ViewValues == {ViewMin, ViewMax}

---------------------------------------------------------------------------
(* The optimisation library, on the grid of quarter weights *)

RECURSIVE SumOver(_, _)
SumOver(f, i) == IF i = 0 THEN 0 ELSE f[AssetSeq[i]] + SumOver(f, i - 1)
Total(f) == SumOver(f, Len(AssetSeq))

\* the fully invested weight vectors of the grid
WeightsGrid == {w \in [Assets -> 0..4] : Total(w) = 4}

\* those within the bounds
FeasibleWeights(lb, ub) ==
    {w \in WeightsGrid :
        \A a \in Assets : lb <= 25 * w[a] /\ 25 * w[a] <= ub}

\* w . mu, in eighths of a percent
PortRet(w, mu) == Total([a \in Assets |-> w[a] * mu[a]])
\* w' S w for the diagonal S
PortVar(w, var) == Total([a \in Assets |-> w[a] * w[a] * var[a]])

Failed == [ok |-> FALSE, w |-> <<>>]
Solved(w) == [ok |-> TRUE, w |-> w]

\* EfficientFrontier(mu, cov, weight_bounds=(lb, ub))
EfficientFrontier(id, mu, cov, lb, ub) ==
    [id |-> id, mu |-> mu, cov |-> cov, lb |-> lb, ub |-> ub]

\* the vector of least variance among G, a non-empty set
MinVar(G, var) ==
    LET vs == {PortVar(w, var) : w \in G}
        least == CHOOSE x \in vs : \A y \in vs : x <= y
    IN  CHOOSE w \in G : PortVar(w, var) = least

\* ef.min_volatility(): raises when no weight vector is within the bounds
min_volatility(e) ==
    LET F == FeasibleWeights(e.lb, e.ub)
    IN  IF F = {} THEN Failed ELSE Solved(MinVar(F, e.cov.v))

\* ef.efficient_return(target): least variance with w . mu >= target;
\* raises when the target is above every attainable return
efficient_return(e, target) ==
    LET G == {w \in FeasibleWeights(e.lb, e.ub) :
                  PortRet(w, e.mu.v) >= 8 * target}
    IN  IF G = {} THEN Failed ELSE Solved(MinVar(G, e.cov.v))

\* ef.max_sharpe(risk_free_rate): raises when no asset returns more than
\* the risk-free rate or no portfolio within the bounds does
max_sharpe(e, r) ==
    LET G == {w \in FeasibleWeights(e.lb, e.ub) :
                  PortRet(w, e.mu.v) > 8 * r}
        ex(w) == PortRet(w, e.mu.v) - 8 * r
        \* the squared Sharpe ratio of w, as <<numerator, denominator>>
        sq(w) == <<ex(w) * ex(w), PortVar(w, e.cov.v)>>
        qs == {sq(w) : w \in G}
        best == CHOOSE x \in qs : \A y \in qs : x[1] * y[2] >= y[1] * x[2]
    IN  IF (\A a \in Assets : e.mu.v[a] <= 2 * r) \/ G = {}
        THEN Failed
        ELSE Solved(CHOOSE w \in G : sq(w) = best)

\* ef.clean_weights(): weights below the cutoff 1e-4 become 0, the others
\* are rounded to 5 decimals; a dict keyed by the asset names
clean_weights(w) ==
    [a \in Assets |-> IF 2500 * w[a] < 1 THEN 0 ELSE w[a]]

\* ef.portfolio_performance(risk_free_rate): (return, volatility, Sharpe);
\* the volatility as its square, the Sharpe ratio as excess / sqrt(var)
portfolio_performance(e, w, r) ==
    [expected_return |-> PortRet(w, e.mu.v),
     portfolio_volatility |-> [sq |-> PortVar(w, e.cov.v)],
     sharpe_ratio |-> [num |-> PortRet(w, e.mu.v) - 8 * r,
                       den_sq |-> PortVar(w, e.cov.v)]]

\* plotting.plot_efficient_frontier(efplot): solves min_volatility on a copy
\* first, and raises when that fails
plot_efficient_frontier(e) == min_volatility(e).ok

\* BlackLittermanModel(cov, absolute_views, pi).bl_returns() with the
\* default uncertainty of the views: for a diagonal covariance the posterior
\* of a viewed asset is the midpoint of its prior and its view, and the
\* prior elsewhere.  The result remembers the arguments the model was built
\* with.
bl_returns(cov, views, pi) ==
    [kind |-> "bl_returns",
     prior |-> pi,
     cov |-> cov,
     views |-> views,
     v |-> [a \in Assets |->
              IF a \in DOMAIN views
              THEN (pi.v[a] + 2 * views[a]) \div 2
              ELSE pi.v[a]]]

---------------------------------------------------------------------------
(* pandas and numpy on return series.  A series is a function from its     *)
(* index, a finite set of periods, to rationals or NaN.  A non-finite      *)
(* float (nan, inf) is NaN.                                                *)

NAdd(x, y) == IF IsNaN(x) \/ IsNaN(y) THEN NaN ELSE FAdd(x, y)
NSub(x, y) == IF IsNaN(x) \/ IsNaN(y) THEN NaN ELSE FSub(x, y)
NMul(x, y) == IF IsNaN(x) \/ IsNaN(y) THEN NaN ELSE FMul(x, y)
NDiv(x, y) ==
    IF IsNaN(x) \/ IsNaN(y) \/ y.n = 0 THEN NaN ELSE FDiv(x, y)

\* the periods of a series that hold a number
Valid(x) == {t \in DOMAIN x : ~IsNaN(x[t])}

RECURSIVE SumAt(_, _)
SumAt(x, S) ==
    IF S = {} THEN FZero
    ELSE LET t == CHOOSE u \in S : TRUE
         IN  FAdd(x[t], SumAt(x, S \ {t}))

\* Series.mean(): NaN periods are skipped; NaN for an empty series
Mean(x) ==
    IF Valid(x) = {} THEN NaN
    ELSE FDiv(SumAt(x, Valid(x)), FInt(Cardinality(Valid(x))))

\* Series.min(): NaN periods are skipped
Min(x) ==
    IF Valid(x) = {} THEN NaN
    ELSE x[CHOOSE t \in Valid(x) : \A u \in Valid(x) : FLeq(x[t], x[u])]

\* x - y on two series: aligned on the union of the indices, NaN where
\* either side has no number
SeriesSub(x, y) ==
    [t \in DOMAIN x \cup DOMAIN y |->
        IF t \in DOMAIN x /\ t \in DOMAIN y THEN NSub(x[t], y[t]) ELSE NaN]

\* frame[col] = series: the series is aligned to the frame's index
Reindex(x, idx) == [t \in idx |-> IF t \in DOMAIN x THEN x[t] ELSE NaN]

\* x - c and x ** 2, elementwise
SeriesMinus(x, c) == [t \in DOMAIN x |-> NSub(x[t], c)]
SeriesSquare(x) == [t \in DOMAIN x |-> NMul(x[t], x[t])]

\* BelowZero keeping every period, those not below zero as 0 (the downside
\* deviation taken over all periods)
BelowZeroOrZeroed(x) ==
    [t \in Valid(x) |-> IF FLess(x[t], FZero) THEN x[t] ELSE FZero]

\* x[x < 0]: the periods where the comparison is true (false for NaN)
BelowZero(x) ==
    [t \in {u \in Valid(x) : FLess(x[u], FZero)} |-> x[t]]

\* the sum of squared deviations from the mean over the valid periods,
\* divided by (count - ddof); NaN when count - ddof <= 0
Variance(x, ddof) ==
    LET n == Cardinality(Valid(x))
        m == Mean(x)
        dev == [t \in Valid(x) |-> FSub(x[t], m)]
    IN  IF n - ddof <= 0 THEN NaN
        ELSE FDiv(SumAt(SeriesSquare(dev), Valid(x)), FInt(n - ddof))

\* np_std_sq with pandas' own default, ddof = 1
np_std_sq_sample(x) == Variance(x, 1)

\* np.std(series): numpy hands over to Series.std(ddof=0), which skips NaN
\* periods; as its square
np_std_sq(x) == Variance(x, 0)

\* np.var(series): Series.var(ddof=0)
np_var(x) == Variance(x, 0)

\* np.cov(x, y)[0, 1]: on the arrays, ddof = 1; NaN when a value is NaN
\* or there are fewer than two observations
np_cov(x, y) ==
    LET n == Cardinality(DOMAIN x)
        mx == Mean(x)
        my == Mean(y)
        prod == [t \in DOMAIN x |-> FMul(FSub(x[t], mx), FSub(y[t], my))]
    IN  IF Valid(x) # DOMAIN x \/ Valid(y) # DOMAIN y \/ n - 1 <= 0
        THEN NaN
        ELSE FDiv(SumAt(prod, DOMAIN x), FInt(n - 1))

\* returns[keys].dot(values), the weights being quarters
Dot(table, w) ==
    LET idx == DOMAIN table[AssetSeq[1]]
        term(t) == [i \in 1..Len(AssetSeq) |->
                       FMul(Frac(w[AssetSeq[i]], 4), table[AssetSeq[i]][t])]
    IN  [t \in idx |-> FSum(term(t))]

\* (1 + x).cumprod() on a series indexed 1..n
RECURSIVE CumProdAt(_, _)
CumProdAt(x, t) ==
    IF t = 0 THEN FOne ELSE FMul(CumProdAt(x, t - 1), FAdd(FOne, x[t]))
CumProd1(x) == [t \in DOMAIN x |-> CumProdAt(x, t)]

\* x.cummax()
FMax(a, b) == IF FLess(a, b) THEN b ELSE a
RECURSIVE CumMaxAt(_, _)
CumMaxAt(x, t) ==
    IF t = 1 THEN x[1] ELSE FMax(CumMaxAt(x, t - 1), x[t])
\* CumMax with the maximum of the whole series at every period
CumMaxWhole(x) == [t \in DOMAIN x |-> CumMaxAt(x, Cardinality(DOMAIN x))]

CumMax(x) == [t \in DOMAIN x |-> CumMaxAt(x, t)]

---------------------------------------------------------------------------
(* The analytics of a tab, as the script computes them *)

Pct(k) == Frac(k, 100)

\* lines 226-229: cumulative returns, running maximum, drawdowns, minimum
\* line 228
Drawdowns(cumulative_returns, rolling_max) ==
    [t \in DOMAIN cumulative_returns |->
        NDiv(FSub(cumulative_returns[t], rolling_max[t]), rolling_max[t])]

DrawdownAnalysis(portfolio_returns) ==
    LET cumulative_returns == CumProd1(portfolio_returns)
        rolling_max == CumMax(cumulative_returns)
        drawdowns == Drawdowns(cumulative_returns, rolling_max)
    IN  [cumulative_returns |-> cumulative_returns,
         rolling_max |-> rolling_max,
         drawdowns |-> drawdowns,
         max_drawdown |-> Min(drawdowns)]

\* lines 259-260: tracking error, as its square
ActiveRisk(portfolio_returns, benchmark_returns) ==
    LET active_returns == SeriesSub(portfolio_returns, benchmark_returns)
    IN  [sq |-> NMul(FInt(12), np_std_sq(active_returns))]

\* lines 267-273: the Sortino ratio num / sqrt(den_sq)
Sortino(portfolio, r) ==
    LET mrfr == Frac(r, 1200)
        excess_returns == SeriesMinus(portfolio, mrfr)
        downside_returns == BelowZero(excess_returns)
        downside_risk_sq ==
            NMul(Mean(SeriesSquare(downside_returns)), FInt(12))
    IN  [num |-> NMul(Mean(excess_returns), FInt(12)),
         den_sq |-> downside_risk_sq,
         downside |-> DOMAIN downside_returns]

\* lines 276-278
Beta(portfolio, msci) ==
    LET covariance == np_cov(portfolio, msci)
        benchmark_variance == np_var(msci)
    IN  NDiv(covariance, benchmark_variance)

\* lines 281-283
Alpha(portfolio, msci, r) ==
    LET portfolio_return == NMul(Mean(portfolio), FInt(12))
        benchmark_return == NMul(Mean(msci), FInt(12))
        beta == Beta(portfolio, msci)
    IN  NSub(portfolio_return,
             NAdd(Pct(r), NMul(beta, NSub(benchmark_return, Pct(r)))))

\* line 286: num / sqrt(den_sq)
InformationRatio(portfolio, msci, active_risk) ==
    [num |-> NSub(NMul(Mean(portfolio), FInt(12)),
                  NMul(Mean(msci), FInt(12))),
     den_sq |-> active_risk.sq]

\* lines 259-286 on a frame with index idx
BenchmarkAnalytics(idx, portfolio_returns, benchmark_returns, r) ==
    LET active_risk == ActiveRisk(portfolio_returns, benchmark_returns)
        portfolio == Reindex(portfolio_returns, idx)
        msci == Reindex(benchmark_returns, idx)
    IN  [active_risk |-> active_risk,
         Portfolio |-> portfolio,
         MSCI |-> msci,
         sortino_ratio |-> Sortino(portfolio, r),
         beta |-> Beta(portfolio, msci),
         alpha |-> Alpha(portfolio, msci, r),
         information_ratio |-> InformationRatio(portfolio, msci, active_risk)]

---------------------------------------------------------------------------
(* One run of the script *)

NsNames ==
    {"returns", "expected_returns", "cov_matrix", "ef", "efbl", "efplot",
     "weights", "optimization_label", "cleaned_weights", "expected_return",
     "portfolio_volatility", "sharpe_ratio", "rets", "portfolio_returns",
     "drawdowns", "max_drawdown", "benchmark_returns", "active_risk",
     "sortino_ratio", "beta", "alpha", "information_ratio"}

Item(kind, what, val) == [kind |-> kind, what |-> what, val |-> val]

BoundsError == Item("error", "Lower bound must be less than upper bound", <<>>)
AdjustMessage == Item("write", "Please adjust the input parameters", <<>>)
TargetMessage ==
    Item("write",
         "Please ensure target return is lower than maximum possible return",
         <<>>)

Init ==
    /\ pc = <<"Objective", "start">>
    /\ optimization_method \in Methods
    /\ lower_bound \in LowerBoundValues
    /\ upper_bound \in UpperBoundValues
    /\ rfr \in RfrValues
    /\ target_return \in TargetReturnValues
    /\ viewdict = <<>>
    /\ ns = [x \in NsNames |-> Unset]
    /\ out = [t \in Tabs |-> <<>>]
    /\ calls = <<>>
    /\ fin = <<>>
    /\ fout = <<>>

widgets == <<optimization_method, lower_bound, upper_bound, rfr, target_return>>

\* MuName with the MVO tab's vector in both tabs
MuNameCopied(t) == "expected_returns"

\* the return vector and the optimiser object of a tab (lines 129, 350)
MuName(t) == IF t = "MVO" THEN "expected_returns" ELSE "rets"
EfName(t) == IF t = "MVO" THEN "ef" ELSE "efbl"

\* Handler with the exception not caught: the script ends
HandlerUncaught(t) == <<"done", "done">>

\* where an exception raised inside a tab's try block continues
Handler(t) == <<t, "except">>

\* where the script continues after a tab
AfterTab(t) == IF t = "MVO" THEN <<"BL", "views">> ELSE <<"done", "done">>

\* lines 29-97: the data, the returns table and the two estimates
Objective ==
    /\ pc = <<"Objective", "start">>
    /\ ns' = [ns EXCEPT
                !.returns = Some(PctChange),
                !.expected_returns = Some(HistoricalMean(MeanHistoricalReturn)),
                !.cov_matrix = Some(Shrinkage(LedoitWolf))]
    /\ out' = [out EXCEPT !["Objective"] =
                 <<Item("dataframe", "asset_assumptions",
                        [expected_returns |-> MeanHistoricalReturn,
                         variance |-> LedoitWolf])>>]
    /\ pc' = <<"MVO", "bounds">>
    /\ UNCHANGED <<widgets, viewdict, calls, fin, fout>>

\* BoundsRejected with equal bounds accepted
BoundsRejectedStrict(t) == lower_bound > upper_bound

\* BoundsRejected with equal bounds accepted in the MVO tab only
BoundsRejectedUneven(t) ==
    IF t = "MVO" THEN lower_bound > upper_bound ELSE lower_bound >= upper_bound

\* the condition of lines 126 and 347
BoundsRejected(t) == lower_bound >= upper_bound

\* lines 126-129 and 347-350
BoundsCheck(t) ==
    /\ pc = <<t, "bounds">>
    /\ IF BoundsRejected(t)
       THEN /\ out' = [out EXCEPT ![t] = Append(@, BoundsError)]
            /\ ns' = ns
            /\ pc' = <<t, "plot">>
       ELSE /\ ns' = [ns EXCEPT ![EfName(t)] =
                        Some(EfficientFrontier(EfName(t), Val(ns[MuName(t)]),
                                               Val(ns.cov_matrix),
                                               lower_bound, upper_bound))]
            /\ out' = out
            /\ pc' = <<t, "optimise">>
    /\ UNCHANGED <<widgets, viewdict, calls, fin, fout>>

\* Dispatch with the second branch never taken (its label misspelt)
DispatchMisspelt(method, e, r, target) ==
    IF method = "Max Sharpe"
    THEN [fn |-> "max_sharpe", arg |-> <<r>>,
          res |-> max_sharpe(e, r), label |-> <<"Max Sharpe">>]
    ELSE [fn |-> "min_volatility", arg |-> <<>>,
          res |-> min_volatility(e), label |-> <<"Minimum Volatility">>]

\* lines 132-142 and 353-363: the call the selected method makes
Dispatch(method, e, r, target) ==
    IF method = "Max Sharpe"
    THEN [fn |-> "max_sharpe", arg |-> <<r>>,
          res |-> max_sharpe(e, r), label |-> <<"Max Sharpe">>]
    ELSE IF method = "Efficient Return"
    THEN [fn |-> "efficient_return", arg |-> <<target>>,
          res |-> efficient_return(e, target),
          label |-> <<"Efficient Return", target>>]
    ELSE [fn |-> "min_volatility", arg |-> <<>>,
          res |-> min_volatility(e), label |-> <<"Minimum Volatility">>]

\* lines 132-146 and 353-367
Optimise(t) ==
    /\ pc = <<t, "optimise">>
    /\ \E e \in {Val(ns[EfName(t)])} :
       \E c \in {Dispatch(optimization_method, e, rfr, target_return)} :
       \E perf \in {IF c.res.ok
                    THEN portfolio_performance(e, c.res.w, rfr)
                    ELSE <<>>} :
           /\ calls' = Append(calls, [tab |-> t, ef |-> e, fn |-> c.fn,
                                      arg |-> c.arg, res |-> c.res])
           /\ IF c.res.ok
              THEN /\ ns' = [ns EXCEPT
                               !.weights = Some(c.res.w),
                               !.optimization_label = Some(c.label),
                               !.cleaned_weights = Some(clean_weights(c.res.w)),
                               !.expected_return = Some(perf.expected_return),
                               !.portfolio_volatility =
                                   Some(perf.portfolio_volatility),
                               !.sharpe_ratio = Some(perf.sharpe_ratio)]
                   /\ pc' = <<t, "plot">>
              ELSE /\ ns' = ns
                   /\ pc' = Handler(t)
    /\ UNCHANGED <<widgets, viewdict, out, fin, fout>>

\* lines 152-170 and 373-391: the frontier of a fresh optimiser object and
\* the selected portfolio on it; reading an unbound name raises NameError
Plot(t) ==
    /\ pc = <<t, "plot">>
    /\ \E efplot \in {EfficientFrontier("efplot", Val(ns[MuName(t)]),
                                        Val(ns.cov_matrix),
                                        lower_bound, upper_bound)} :
       \E ok \in {/\ plot_efficient_frontier(efplot)
                  /\ IsSet(ns.portfolio_volatility)
                  /\ IsSet(ns.expected_return)
                  /\ IsSet(ns.optimization_label)} :
           /\ ns' = [ns EXCEPT !.efplot = Some(efplot)]
           /\ IF ok
              THEN /\ out' = [out EXCEPT ![t] = Append(@,
                          Item("pyplot", "Efficient Frontier",
                               [frontier |-> efplot,
                                portfolio_volatility |->
                                    Val(ns.portfolio_volatility),
                                expected_return |-> Val(ns.expected_return),
                                label |-> Val(ns.optimization_label)]))]
                   /\ pc' = <<t, "weights">>
              ELSE /\ out' = out
                   /\ pc' = Handler(t)
    /\ UNCHANGED <<widgets, viewdict, calls, fin, fout>>

\* lines 172-210 and 393-431: the weights and their pie chart
ReportWeights(t) ==
    /\ pc = <<t, "weights">>
    /\ IF IsSet(ns.cleaned_weights)
       THEN /\ out' = [out EXCEPT ![t] = @ \o
                   <<Item("write", "cleaned_weights", Val(ns.cleaned_weights)),
                     Item("pyplot", "Optimized Portfolio Allocation",
                          Val(ns.cleaned_weights))>>]
            /\ pc' = <<t, "performance">>
       ELSE /\ out' = out
            /\ pc' = Handler(t)
    /\ UNCHANGED <<widgets, viewdict, ns, calls, fin, fout>>

\* lines 218-221 and 439-442
ReportPerformance(t) ==
    /\ pc = <<t, "performance">>
    /\ IF /\ IsSet(ns.expected_return)
          /\ IsSet(ns.portfolio_volatility)
          /\ IsSet(ns.sharpe_ratio)
       THEN /\ out' = [out EXCEPT ![t] = @ \o
                   <<Item("write", "Expected Annual Return",
                          Val(ns.expected_return)),
                     Item("write", "Annual Volatility (Risk)",
                          Val(ns.portfolio_volatility)),
                     Item("write", "Sharpe Ratio", Val(ns.sharpe_ratio))>>]
            /\ pc' = <<t, "drawdown">>
       ELSE /\ out' = out
            /\ pc' = Handler(t)
    /\ UNCHANGED <<widgets, viewdict, ns, calls, fin, fout>>

\* PortfolioReturns reading the table's 'Portfolio' column once it exists
PortfolioReturnsOfTable(table, cleaned_weights) ==
    IF "Portfolio" \in DOMAIN table
    THEN table["Portfolio"]
    ELSE Dot(table, cleaned_weights)

\* lines 225 and 446: the asset columns of the table times the weights
PortfolioReturns(table, cleaned_weights) == Dot(table, cleaned_weights)

\* lines 225-241 and 446-462
Drawdown(t) ==
    /\ pc = <<t, "drawdown">>
    /\ \E portfolio_returns \in
             {PortfolioReturns(Val(ns.returns), Val(ns.cleaned_weights))} :
       \E d \in {DrawdownAnalysis(portfolio_returns)} :
           /\ ns' = [ns EXCEPT
                       !.portfolio_returns = Some(portfolio_returns),
                       !.drawdowns = Some(d.drawdowns),
                       !.max_drawdown = Some(d.max_drawdown)]
           /\ out' = [out EXCEPT ![t] = @ \o
                   <<Item("write", "Maximum Drawdown", d.max_drawdown),
                     Item("pyplot", "Portfolio Drawdown", d.drawdowns)>>]
    /\ pc' = <<t, "benchmark">>
    /\ UNCHANGED <<widgets, viewdict, calls, fin, fout>>

\* lines 264-265 and 485-486: two columns are set in the shared table
WithColumns(table, portfolio, msci) ==
    [c \in DOMAIN table \cup {"Portfolio", "MSCI USA"} |->
        IF c = "Portfolio" THEN portfolio
        ELSE IF c = "MSCI USA" THEN msci
        ELSE table[c]]

\* lines 247-293 and 468-514: the benchmark is downloaded (which can fail)
\* and the benchmark-relative metrics are computed and written
Benchmark(t) ==
    /\ pc = <<t, "benchmark">>
    /\ \E downloaded \in BOOLEAN :
         IF downloaded
         THEN LET table == Val(ns.returns)
                  idx == DOMAIN table[AssetSeq[1]]
              IN  \E m \in {BenchmarkAnalytics(idx, Val(ns.portfolio_returns),
                                               BenchmarkPctChange, rfr)} :
                  /\ ns' = [ns EXCEPT
                              !.benchmark_returns = Some(BenchmarkPctChange),
                              !.active_risk = Some(m.active_risk),
                              !.returns =
                                  Some(WithColumns(table, m.Portfolio, m.MSCI)),
                              !.sortino_ratio = Some(m.sortino_ratio),
                              !.beta = Some(m.beta),
                              !.alpha = Some(m.alpha),
                              !.information_ratio = Some(m.information_ratio)]
                  /\ out' = [out EXCEPT ![t] = @ \o
                          <<Item("write", "Active Risk (Tracking Error)",
                                 m.active_risk),
                            Item("write", "Sortino Ratio", m.sortino_ratio),
                            Item("write", "Beta", m.beta),
                            Item("write", "Alpha", m.alpha),
                            Item("write", "Information Ratio",
                                 m.information_ratio)>>]
                  /\ pc' = AfterTab(t)
         ELSE /\ ns' = ns
              /\ out' = out
              /\ pc' = Handler(t)
    /\ UNCHANGED <<widgets, viewdict, calls, fin, fout>>

\* lines 294-296 and 516-518
Except(t) ==
    /\ pc = <<t, "except">>
    /\ out' = [out EXCEPT ![t] = @ \o <<AdjustMessage, TargetMessage>>]
    /\ pc' = AfterTab(t)
    /\ UNCHANGED <<widgets, viewdict, ns, calls, fin, fout>>

\* BuildViews with every view taken from the first asset's slider
BuildViewsFromFirst(checked, slider) ==
    [a \in {b \in Assets : checked[b]} |-> slider[AssetSeq[1]]]

\* lines 301-323: a view for every checked asset, from its own slider
BuildViews(checked, slider) ==
    [a \in {b \in Assets : checked[b]} |-> slider[a]]

\* lines 301-323 for given values of the four checkboxes and sliders
ViewsFrom(checked, slider) ==
    /\ pc = <<"BL", "views">>
    /\ viewdict' = BuildViews(checked, slider)
    /\ pc' = <<"BL", "model">>
    /\ UNCHANGED <<widgets, ns, out, calls, fin, fout>>

Views ==
    \E checked \in [Assets -> BOOLEAN], slider \in [Assets -> ViewValues] :
        /\ Cardinality({a \in Assets : checked[a]}) <= MaxViews
        /\ ViewsFrom(checked, slider)

\* lines 327-337: the posterior returns, computed and shown outside any try
BlackLitterman ==
    /\ pc = <<"BL", "model">>
    /\ \E rets \in {bl_returns(Val(ns.cov_matrix), viewdict,
                               Val(ns.expected_returns))} :
           /\ ns' = [ns EXCEPT !.rets = Some(rets)]
           /\ out' = [out EXCEPT !["BL"] =
                        Append(@, Item("dataframe", "rets", rets))]
    /\ pc' = <<"BL", "bounds">>
    /\ UNCHANGED <<widgets, viewdict, calls, fin, fout>>

MvoBoundsCheck == BoundsCheck("MVO")
MvoOptimise == Optimise("MVO")
MvoPlot == Plot("MVO")
MvoReportWeights == ReportWeights("MVO")
MvoReportPerformance == ReportPerformance("MVO")
MvoDrawdown == Drawdown("MVO")
MvoBenchmark == Benchmark("MVO")
MvoExcept == Except("MVO")
BlBoundsCheck == BoundsCheck("BL")
BlOptimise == Optimise("BL")
BlPlot == Plot("BL")
BlReportWeights == ReportWeights("BL")
BlReportPerformance == ReportPerformance("BL")
BlDrawdown == Drawdown("BL")
BlBenchmark == Benchmark("BL")
BlExcept == Except("BL")

Next ==
    \/ Objective
    \/ MvoBoundsCheck
    \/ MvoOptimise
    \/ MvoPlot
    \/ MvoReportWeights
    \/ MvoReportPerformance
    \/ MvoDrawdown
    \/ MvoBenchmark
    \/ MvoExcept
    \/ Views
    \/ BlackLitterman
    \/ BlBoundsCheck
    \/ BlOptimise
    \/ BlPlot
    \/ BlReportWeights
    \/ BlReportPerformance
    \/ BlDrawdown
    \/ BlBenchmark
    \/ BlExcept

Spec == Init /\ [][Next]_vars

---------------------------------------------------------------------------
(* The analytics on their own: each is applied to return series drawn      *)
(* from small sets of values, of every length up to MaxT.                  *)

SeriesOver(vals, n) == [1..n -> {Tenth(k) : k \in vals}]

\* portfolio returns, among them a total loss (-1) and a doubling
DrawdownInputs ==
    UNION {{[kind |-> "drawdown", p |-> p] :
               p \in SeriesOver({-10, -2, 0, 10}, n)} : n \in 1..MaxT}

\* a benchmark that lacks some of the portfolio's periods, and may have one
\* the portfolio lacks
ActiveRiskInputs ==
    UNION {UNION {{[kind |-> "active_risk", p |-> p, b |-> b] :
                      p \in SeriesOver({-1, 2}, n),
                      b \in [S -> {Tenth(k) : k \in {0, 1}}]} :
                  S \in SUBSET (1..(n + 1))} : n \in 1..MaxT}

SortinoInputs ==
    UNION {{[kind |-> "sortino", p |-> p, r |-> r] :
               p \in SeriesOver({-1, 0, 2}, n), r \in {0, 3}} : n \in 1..MaxT}

BetaInputs ==
    UNION {{[kind |-> "beta", p |-> p, b |-> b, r |-> r] :
               p \in SeriesOver({-1, 2}, n),
               b \in SeriesOver({-1, 2}, n),
               r \in {0, 3}} : n \in 1..MaxT}

InitAnalytics ==
    /\ pc = <<"analytics", "input">>
    /\ optimization_method = "Minimum Volatility"
    /\ lower_bound = LowerBoundMin
    /\ upper_bound = UpperBoundMax
    /\ rfr = 3
    /\ target_return = 8
    /\ viewdict = <<>>
    /\ ns = [x \in NsNames |-> Unset]
    /\ out = [t \in Tabs |-> <<>>]
    /\ calls = <<>>
    /\ fin \in DrawdownInputs \cup ActiveRiskInputs \cup SortinoInputs
                 \cup BetaInputs
    /\ fout = <<>>

Apply(kind, result) ==
    /\ pc = <<"analytics", "input">>
    /\ fin.kind = kind
    /\ fout' = result
    /\ pc' = <<"analytics", "done">>
    /\ UNCHANGED <<widgets, viewdict, ns, out, calls, fin>>

ApplyDrawdown == Apply("drawdown", DrawdownAnalysis(fin.p))
ApplyActiveRisk == Apply("active_risk", ActiveRisk(fin.p, fin.b))
ApplySortino == Apply("sortino", Sortino(fin.p, fin.r))
ApplyBeta ==
    Apply("beta", [beta |-> Beta(fin.p, fin.b),
                   alpha |-> Alpha(fin.p, fin.b, fin.r)])

NextAnalytics ==
    \/ ApplyDrawdown
    \/ ApplyActiveRisk
    \/ ApplySortino
    \/ ApplyBeta

SpecAnalytics == InitAnalytics /\ [][NextAnalytics]_vars

---------------------------------------------------------------------------
(* The bounds check over the whole range of the two sliders: the run up    *)
(* to the MVO tab's optimiser call, with the method that fails only when   *)
(* no portfolio is within the bounds.                                      *)

InitBounds ==
    /\ pc = <<"Objective", "start">>
    /\ optimization_method = "Minimum Volatility"
    /\ lower_bound \in LowerBoundMin..LowerBoundMax
    /\ upper_bound \in UpperBoundMin..UpperBoundMax
    /\ rfr = 3
    /\ target_return = 8
    /\ viewdict = <<>>
    /\ ns = [x \in NsNames |-> Unset]
    /\ out = [t \in Tabs |-> <<>>]
    /\ calls = <<>>
    /\ fin = <<>>
    /\ fout = <<>>

NextBounds ==
    \/ Objective
    \/ MvoBoundsCheck
    \/ MvoOptimise

SpecBounds == InitBounds /\ [][NextBounds]_vars

---------------------------------------------------------------------------
(* The views over every combination of the four checkboxes: the run up to  *)
(* the Black Litterman model, the checkboxes and sliders being fixed at    *)
(* the start of the run like the sidebar's widgets.  The MVO tab is the    *)
(* short one of rejected bounds.                                           *)

ViewInputs ==
    {[kind |-> "views", checked |-> checked, slider |-> slider] :
        checked \in [Assets -> BOOLEAN], slider \in [Assets -> ViewValues]}

InitViews ==
    /\ pc = <<"Objective", "start">>
    /\ optimization_method = "Minimum Volatility"
    /\ lower_bound = LowerBoundMax
    /\ upper_bound = LowerBoundMax
    /\ rfr = 3
    /\ target_return = 8
    /\ viewdict = <<>>
    /\ ns = [x \in NsNames |-> Unset]
    /\ out = [t \in Tabs |-> <<>>]
    /\ calls = <<>>
    /\ fin \in ViewInputs
    /\ fout = <<>>

SetViews == ViewsFrom(fin.checked, fin.slider)

NextViews ==
    \/ Objective
    \/ MvoBoundsCheck
    \/ MvoPlot
    \/ MvoExcept
    \/ SetViews
    \/ BlackLitterman

SpecViews == InitViews /\ [][NextViews]_vars

---------------------------------------------------------------------------
(* Properties of a run *)

OptTabs == {"MVO", "BL"}

\* the calls a tab has made
CallsOf(t) == SelectSeq(calls, LAMBDA c : c.tab = t)

\* the tab is past its optimiser block
AfterOptimiser(t) ==
    \/ pc[1] = t /\ pc[2] \in {"plot", "weights", "performance", "drawdown",
                               "benchmark", "except"}
    \/ pc[1] = "done"
    \/ t = "MVO" /\ pc[1] = "BL"

\* the tab has been left
Finished(t) == pc[1] = "done" \/ (t = "MVO" /\ pc[1] = "BL")

\* what a tab displays of an optimised portfolio
ReportedWhat ==
    {"Efficient Frontier", "cleaned_weights", "Optimized Portfolio Allocation",
     "Expected Annual Return", "Annual Volatility (Risk)", "Sharpe Ratio",
     "Maximum Drawdown", "Portfolio Drawdown", "Active Risk (Tracking Error)",
     "Sortino Ratio", "Beta", "Alpha", "Information Ratio"}

Shows(t, item) == \E i \in 1..Len(out[t]) : out[t][i] = item
ShowsWhat(t, what) == \E i \in 1..Len(out[t]) : out[t][i].what = what
ReportsNothing(t) ==
    \A i \in 1..Len(out[t]) : out[t][i].what \notin ReportedWhat

SelectedFn ==
    CASE optimization_method = "Max Sharpe" -> "max_sharpe"
      [] optimization_method = "Efficient Return" -> "efficient_return"
      [] optimization_method = "Minimum Volatility" -> "min_volatility"

SelectedArg ==
    CASE optimization_method = "Max Sharpe" -> <<rfr>>
      [] optimization_method = "Efficient Return" -> <<target_return>>
      [] optimization_method = "Minimum Volatility" -> <<>>

\* C1: with the bounds accepted (lower_bound < upper_bound) each of the two
\* tabs makes exactly one optimiser call, the one of the selected method with
\* the slider's risk-free rate or target return, on an optimiser built with
\* the sliders' bounds; so both tabs use the same method, bounds, rate and
\* target in a run.  No tab ever makes a second call.
C1_SelectedCall ==
    \A t \in OptTabs :
        /\ Len(CallsOf(t)) <= 1
        /\ (AfterOptimiser(t) /\ lower_bound < upper_bound
               => Len(CallsOf(t)) = 1)
        /\ \A i \in 1..Len(CallsOf(t)) :
              /\ CallsOf(t)[i].fn = SelectedFn
              /\ CallsOf(t)[i].arg = SelectedArg
              /\ CallsOf(t)[i].ef.lb = lower_bound
              /\ CallsOf(t)[i].ef.ub = upper_bound

\* a run in which both tabs called efficient_return with the slider's target
C1_Witness ==
    /\ pc[1] = "done"
    /\ Len(calls) = 2
    /\ calls[1].tab = "MVO" /\ calls[2].tab = "BL"
    /\ calls[1].fn = "efficient_return" /\ calls[2].fn = "efficient_return"
    /\ calls[2].arg = <<target_return>>


\* the tab's optimiser call, and whether it raised
TheCall(t) == CallsOf(t)[1]
OptimiserFailed(t) == Len(CallsOf(t)) = 1 /\ ~TheCall(t).res.ok
OptimiserSolved(t) == Len(CallsOf(t)) = 1 /\ TheCall(t).res.ok

\* the analytics of every portfolio of the grid, from the asset returns and
\* the benchmark returns of the data
GridAnalyticsTable ==
    {[w |-> w, r |-> r,
      d |-> DrawdownAnalysis(Dot(PctChange, w)),
      m |-> BenchmarkAnalytics(DOMAIN BenchmarkPctChange,
                               Dot(PctChange, w), BenchmarkPctChange, r)] :
        w \in WeightsGrid, r \in RfrValues}

GridAnalytics(w, r) ==
    CHOOSE x \in GridAnalyticsTable : x.w = w /\ x.r = r

\* what a tab reports as item is derived from the weights w of the
\* optimiser e and the risk-free rate r
DerivedFrom(item, e, w, r) ==
    \E cw \in {clean_weights(w)} :
    \E perf \in {portfolio_performance(e, w, r)} :
      CASE item.what \in {"cleaned_weights", "Optimized Portfolio Allocation"}
             -> item.val = cw
        [] item.what = "Efficient Frontier"
             -> /\ item.val.expected_return = perf.expected_return
                /\ item.val.portfolio_volatility = perf.portfolio_volatility
        [] item.what = "Expected Annual Return"
             -> item.val = perf.expected_return
        [] item.what = "Annual Volatility (Risk)"
             -> item.val = perf.portfolio_volatility
        [] item.what = "Sharpe Ratio"
             -> item.val = perf.sharpe_ratio
        [] item.what = "Maximum Drawdown"
             -> item.val = GridAnalytics(cw, r).d.max_drawdown
        [] item.what = "Portfolio Drawdown"
             -> item.val = GridAnalytics(cw, r).d.drawdowns
        [] item.what = "Active Risk (Tracking Error)"
             -> item.val = GridAnalytics(cw, r).m.active_risk
        [] item.what = "Sortino Ratio"
             -> item.val = GridAnalytics(cw, r).m.sortino_ratio
        [] item.what = "Beta"
             -> item.val = GridAnalytics(cw, r).m.beta
        [] item.what = "Alpha"
             -> item.val = GridAnalytics(cw, r).m.alpha
        [] item.what = "Information Ratio"
             -> item.val = GridAnalytics(cw, r).m.information_ratio

\* C2: whatever a tab reports of an optimised portfolio (weights, frontier
\* point, performance, drawdown, benchmark-relative metrics) is derived from
\* the weights that tab's own optimiser call returned in this run, the
\* optimiser having been built on the tab's own return vector; in particular
\* the Black Litterman tab reports nothing left over from the MVO tab.
C2_OwnWeights ==
    \A t \in OptTabs :
        \A i \in 1..Len(out[t]) :
            out[t][i].what \in ReportedWhat
                => /\ OptimiserSolved(t)
                   /\ TheCall(t).ef.mu = Val(ns[MuName(t)])
                   /\ DerivedFrom(out[t][i], TheCall(t).ef, TheCall(t).res.w,
                                  rfr)

\* the Black Litterman tab has reported all its metrics, from weights that
\* differ from the MVO tab's
C2_Witness ==
    /\ pc[1] = "done"
    /\ ShowsWhat("MVO", "Information Ratio")
    /\ ShowsWhat("BL", "Information Ratio")
    /\ TheCall("MVO").res.w # TheCall("BL").res.w

\* C5 as stated: the prior given to the Black-Litterman model is a
\* market-implied return vector.
C5_MarketImpliedPrior ==
    IsSet(ns.rets)
        => Val(ns.rets).prior.kind = "market_implied_prior_returns"

\* C5 as amended: the prior given to the Black-Litterman model is the
\* historical mean return vector the MVO tab optimises, the posterior it
\* produces is the return vector of the Black Litterman tab's optimiser and
\* of its frontier plot, and both tabs use the same shrinkage covariance.
C5_HistoricalPrior ==
    /\ IsSet(ns.rets)
          => /\ Val(ns.rets).kind = "bl_returns"
             /\ Val(ns.rets).prior = Val(ns.expected_returns)
             /\ Val(ns.rets).prior.kind = "mean_historical_return"
             /\ Val(ns.rets).cov = Val(ns.cov_matrix)
    /\ IsSet(ns.ef)
          => /\ Val(ns.ef).mu = Val(ns.expected_returns)
             /\ Val(ns.ef).cov = Val(ns.cov_matrix)
             /\ Val(ns.ef).cov.kind = "ledoit_wolf"
    /\ IsSet(ns.efbl)
          => /\ Val(ns.efbl).mu = Val(ns.rets)
             /\ Val(ns.efbl).cov = Val(ns.cov_matrix)
    /\ \A i \in 1..Len(out["BL"]) :
          out["BL"][i].what = "Efficient Frontier"
              => /\ out["BL"][i].val.frontier.mu = Val(ns.rets)
                 /\ out["BL"][i].val.frontier.cov = Val(ns.cov_matrix)

\* the Black Litterman tab has plotted its frontier with views that move the
\* posterior away from the prior
C5_Witness ==
    /\ ShowsWhat("BL", "Efficient Frontier")
    /\ IsSet(ns.efbl)
    /\ Val(ns.efbl).mu.v # Val(ns.expected_returns).v
    /\ Val(ns.rets).prior.v = MeanHistoricalReturn

\* C6: with lower_bound >= upper_bound each of the two tabs shows the error
\* 'Lower bound must be less than upper bound', makes no optimiser call and
\* reports no weights, no performance numbers and no risk metrics.
C6_RejectedBounds ==
    lower_bound >= upper_bound
        => \A t \in OptTabs :
              /\ CallsOf(t) = <<>>
              /\ ReportsNothing(t)
              /\ (AfterOptimiser(t) => ShowsWhat(t, BoundsError.what))

\* a finished run with equal bounds (for which a portfolio exists), both tabs
\* showing the error
C6_Witness ==
    /\ pc[1] = "done"
    /\ lower_bound = upper_bound
    /\ ShowsWhat("MVO", BoundsError.what)
    /\ ShowsWhat("BL", BoundsError.what)
    /\ Len(out["BL"]) = 4

\* C7: a tab whose optimiser call raised shows 'Please adjust the input
\* parameters' and 'Please ensure target return is lower than maximum
\* possible return' and reports nothing; the script goes on: whatever the MVO
\* tab did, the Black Litterman tab computes and shows its posterior
\* returns, and after a failed MVO optimiser it makes its own optimiser call
\* and, when that succeeds, reports its own weights and performance.
C7_FailureHandled ==
    /\ \A t \in OptTabs :
          OptimiserFailed(t)
              => /\ ReportsNothing(t)
                 /\ (Finished(t)
                        => /\ ShowsWhat(t, AdjustMessage.what)
                           /\ ShowsWhat(t, TargetMessage.what))
    /\ pc[1] = "done" => IsSet(ns.rets) /\ ShowsWhat("BL", "rets")
    /\ pc[1] = "done" /\ OptimiserFailed("MVO")
          => /\ Len(CallsOf("BL")) = 1
             /\ (OptimiserSolved("BL")
                    => /\ ShowsWhat("BL", "cleaned_weights")
                       /\ ShowsWhat("BL", "Sharpe Ratio"))

\* the MVO tab's efficient_return raised for a target above every attainable
\* return, and the Black Litterman tab, with a view that lifts an asset above
\* the target, reported all its metrics
C7_Witness ==
    /\ pc[1] = "done"
    /\ OptimiserFailed("MVO")
    /\ TheCall("MVO").fn = "efficient_return"
    /\ FeasibleWeights(lower_bound, upper_bound) # {}
    /\ OptimiserSolved("BL")
    /\ ShowsWhat("BL", "Information Ratio")
    /\ ~ShowsWhat("MVO", "cleaned_weights")

---------------------------------------------------------------------------
(* Properties of the analytics *)

Applied(kind) == pc = <<"analytics", "done">> /\ fin.kind = kind

\* the periods in which both returns exist, and the return differences there
CommonPeriods(p, b) == DOMAIN p \cap DOMAIN b
Differences(p, b) == [t \in CommonPeriods(p, b) |-> FSub(p[t], b[t])]

\* the population variance (sum of squares / n - squared mean) of a series
\* without NaN, times k
ScaledPopulationVariance(d, k) ==
    LET n == Cardinality(DOMAIN d)
        s1 == SumAt(d, DOMAIN d)
        s2 == SumAt(SeriesSquare(d), DOMAIN d)
    IN  IF n = 0 THEN NaN
        ELSE FMul(FInt(k),
                  FSub(FDiv(s2, FInt(n)), FDiv(FMul(s1, s1), FInt(n * n))))

\* C3: the active risk is the (population) standard deviation of the
\* per-period difference between portfolio and benchmark return, over the
\* periods in which both exist, times sqrt(12); stated on the squares.
C3_ActiveRisk ==
    Applied("active_risk")
        => fout.sq = ScaledPopulationVariance(Differences(fin.p, fin.b), 12)

\* a benchmark that lacks one of the portfolio's periods and has one the
\* portfolio lacks, two or more common periods, and a tracking error above 0
C3_Witness ==
    /\ Applied("active_risk")
    /\ DOMAIN fin.p \ DOMAIN fin.b # {}
    /\ DOMAIN fin.b \ DOMAIN fin.p # {}
    /\ Cardinality(CommonPeriods(fin.p, fin.b)) >= 2
    /\ fout.sq.n > 0

\* the excess return of a period over the monthly risk-free rate r / 12
Excess(p, r) == [t \in DOMAIN p |-> FSub(p[t], Frac(r, 1200))]
DownsidePeriods(p, r) == {t \in DOMAIN p : Excess(p, r)[t].n < 0}

\* C4: the Sortino ratio's numerator is 12 times the mean monthly excess
\* return over slider rate / 12; its denominator is sqrt(12) times the root
\* mean square of the excess returns below zero, the mean being taken over
\* the below-zero periods only (stated on the square); the periods with an
\* excess return >= 0 do not contribute.  Without a below-zero period the
\* denominator, and so the ratio, is NaN.
C4_Sortino ==
    Applied("sortino")
        => LET e == Excess(fin.p, fin.r)
               D == DownsidePeriods(fin.p, fin.r)
               n == Cardinality(DOMAIN fin.p)
           IN  /\ fout.num = FDiv(FMul(FInt(12), SumAt(e, DOMAIN e)), FInt(n))
               /\ fout.downside = D
               /\ fout.den_sq =
                    IF D = {} THEN NaN
                    ELSE FDiv(FMul(FInt(12), SumAt(SeriesSquare(e), D)),
                              FInt(Cardinality(D)))

\* a series with a period below zero only because of the risk-free rate
\* (return 0), a period above it, and a finite ratio
C4_Witness ==
    /\ Applied("sortino")
    /\ \E t \in DOMAIN fin.p : fin.p[t].n = 0 /\ t \in fout.downside
    /\ \E t \in DOMAIN fin.p : t \notin fout.downside
    /\ ~IsNaN(fout.den_sq)

\* C8: beta is the covariance of portfolio and benchmark returns divided by
\* the variance of the benchmark returns under the same normalisation, so a
\* portfolio equal to its benchmark in every one of two or more periods,
\* with a benchmark variance other than 0, has beta 1 and alpha 0.
C8_BetaOneAlphaZero ==
    /\ Applied("beta")
    /\ Cardinality(DOMAIN fin.p) >= 2
    /\ fin.p = fin.b
    /\ Variance(fin.b, 0).n # 0
    => fout.beta = FOne /\ fout.alpha = FZero

\* the cumulative return of a series up to t, by the recurrence
RECURSIVE Growth(_, _)
Growth(p, t) ==
    IF t = 1 THEN FAdd(FOne, p[1])
    ELSE FMul(Growth(p, t - 1), FAdd(FOne, p[t]))

\* C9: for portfolio returns all above -1, at every period the running
\* maximum is >= the cumulative return, the drawdown is (cumulative -
\* running maximum) / running maximum and lies in (-1, 0], it is 0 at the
\* first period and at every period that sets a new cumulative high; the
\* maximum drawdown is the minimum of the series and <= 0.
C9_Drawdown ==
    Applied("drawdown") /\ (\A t \in DOMAIN fin.p : FLess(FInt(-1), fin.p[t]))
        => /\ \A t \in DOMAIN fin.p :
                /\ fout.cumulative_returns[t] = Growth(fin.p, t)
                /\ FLeq(fout.cumulative_returns[t], fout.rolling_max[t])
                /\ fout.drawdowns[t] =
                     FDiv(FSub(Growth(fin.p, t), fout.rolling_max[t]),
                          fout.rolling_max[t])
                /\ FLess(FInt(-1), fout.drawdowns[t])
                /\ FLeq(fout.drawdowns[t], FZero)
                /\ (\A u \in 1..t : FLeq(Growth(fin.p, u), Growth(fin.p, t)))
                      => fout.drawdowns[t] = FZero
                /\ FLeq(fout.max_drawdown, fout.drawdowns[t])
           /\ fout.drawdowns[1] = FZero
           /\ \E t \in DOMAIN fin.p : fout.max_drawdown = fout.drawdowns[t]
           /\ FLeq(fout.max_drawdown, FZero)

\* a loss in the second period and a new high in the third
C9_Witness ==
    /\ Applied("drawdown")
    /\ \A t \in DOMAIN fin.p : FLess(FInt(-1), fin.p[t])
    /\ Cardinality(DOMAIN fin.p) = 3
    /\ FLess(fout.drawdowns[2], FZero)
    /\ fout.drawdowns[3] = FZero
    /\ FLess(fout.cumulative_returns[1], fout.cumulative_returns[3])
    /\ fout.max_drawdown = fout.drawdowns[2]

---------------------------------------------------------------------------
(* Properties of the bounds check *)

\* a weight vector over the four assets, in whole percents and in ascending
\* order, within the bounds and summing to 100; the bounds being whole
\* percents, a real-valued one exists exactly when such a one does
FeasibleBounds(lb, ub) ==
    \E w1 \in lb..ub : \E w2 \in w1..ub : \E w3 \in w2..ub :
        LET w4 == 100 - w1 - w2 - w3 IN w3 <= w4 /\ w4 <= ub

Checked == pc[2] \notin {"start", "bounds"}
Rejected == ShowsWhat("MVO", BoundsError.what)

\* C10 as stated: the bounds check accepts a slider pair exactly when a fully
\* invested portfolio within the bounds exists, so the optimiser never fails
\* for an accepted pair.
C10_AcceptedIffFeasible ==
    Checked
        => /\ ~Rejected <=> FeasibleBounds(lower_bound, upper_bound)
           /\ Len(calls) = 1 => calls[1].res.ok

\* C10 as amended: the check rejects a pair exactly when lower_bound >=
\* upper_bound, while a fully invested portfolio within the bounds exists
\* exactly when lower_bound <= upper_bound and upper_bound >= 0.25; the
\* optimiser called for an accepted pair fails exactly when none exists.
C10_AcceptedIffLess ==
    Checked
        => /\ Rejected <=> lower_bound >= upper_bound
           /\ FeasibleBounds(lower_bound, upper_bound)
                 <=> lower_bound <= upper_bound /\ upper_bound >= 25
           /\ Len(calls) = 1
                 => (calls[1].res.ok
                        <=> FeasibleBounds(lower_bound, upper_bound))

\* an accepted pair for which no portfolio exists: the optimiser has raised
C10_Witness ==
    /\ Len(calls) = 1
    /\ ~calls[1].res.ok
    /\ lower_bound < upper_bound
    /\ ~FeasibleBounds(lower_bound, upper_bound)

---------------------------------------------------------------------------
(* Properties of the shared returns table *)

\* the four asset return columns of the data, weighted (quarters) and summed
WeightedAssetReturns(w) ==
    [t \in DOMAIN PctChange["USA QUALITY"] |->
        FAdd(FAdd(FMul(Frac(w["USA QUALITY"], 4),
                       PctChange["USA QUALITY"][t]),
                  FMul(Frac(w["USA LARGE VALUE"], 4),
                       PctChange["USA LARGE VALUE"][t])),
             FAdd(FMul(Frac(w["USA LARGE GROWTH"], 4),
                       PctChange["USA LARGE GROWTH"][t]),
                  FMul(Frac(w["USA MINIMUM VOLATILITY"], 4),
                       PctChange["USA MINIMUM VOLATILITY"][t])))]

\* the Black Litterman tab has computed its portfolio return series
BlSeriesComputed == ShowsWhat("BL", "Maximum Drawdown")

\* C11: whatever the MVO tab did, the four asset columns of the returns
\* table keep the values they had before it ran, and the portfolio return
\* series of the Black Litterman tab is the weighted sum of those four
\* columns only, with the Black Litterman weights.
C11_AssetReturnsKept ==
    /\ IsSet(ns.returns)
          => /\ Assets \subseteq DOMAIN Val(ns.returns)
             /\ \A a \in Assets : Val(ns.returns)[a] = PctChange[a]
    /\ BlSeriesComputed
          => Val(ns.portfolio_returns) =
                WeightedAssetReturns(clean_weights(TheCall("BL").res.w))

\* the MVO tab has added its two columns, and the Black Litterman tab has
\* just computed a series that differs from the 'Portfolio' column
C11_Witness ==
    /\ pc = <<"BL", "benchmark">>
    /\ ShowsWhat("MVO", "Information Ratio")
    /\ {"Portfolio", "MSCI USA"} \subseteq DOMAIN Val(ns.returns)
    /\ Val(ns.returns)["Portfolio"] # Val(ns.portfolio_returns)
    /\ TheCall("MVO").res.w # TheCall("BL").res.w

---------------------------------------------------------------------------
(* Properties of the views *)

\* the views the Black Litterman model was built with
ModelBuilt == IsSet(ns.rets)
PassedViews == Val(ns.rets).views
CheckedAssets == {a \in Assets : fin.checked[a]}

\* C12: for every combination of the four checkboxes, the absolute views
\* passed to the Black Litterman model are those of exactly the checked
\* assets, each with the value of its own slider, which lies in
\* [0.05, 0.25]; an unchecked asset has no view, and with no box checked the
\* model is built with no view at all.
C12_ViewsOfCheckedAssets ==
    /\ pc[1] = "BL" /\ pc[2] # "views"
          => /\ DOMAIN viewdict = CheckedAssets
             /\ \A a \in CheckedAssets : viewdict[a] = fin.slider[a]
    /\ pc = <<"BL", "bounds">> => ModelBuilt
    /\ ModelBuilt
          => /\ DOMAIN PassedViews = CheckedAssets
             /\ DOMAIN PassedViews \subseteq Assets
             /\ \A a \in CheckedAssets :
                   /\ PassedViews[a] = fin.slider[a]
                   /\ ViewMin <= PassedViews[a] /\ PassedViews[a] <= ViewMax
             /\ \A a \in Assets \ CheckedAssets : a \notin DOMAIN PassedViews
             /\ CheckedAssets = {} => DOMAIN PassedViews = {}

\* the model built with three boxes checked and one not, two of the checked
\* assets' sliders at different values
C12_Witness ==
    /\ ModelBuilt
    /\ Cardinality(CheckedAssets) = 3
    /\ \E a, b \in CheckedAssets : PassedViews[a] # PassedViews[b]
    /\ \A a \in CheckedAssets : PassedViews[a] = fin.slider[a]

============================================================================
